---------------------------- MODULE Spec2Model ----------------------------
(***************************************************************************)
(* A model of the OV-DINO gradio demo, ovdino/demo/app.py: the start-up    *)
(* script (argument parsing, model loading, optional SAM2 predictor, the   *)
(* OVDINODemo object, the gradio Blocks UI) and the two UI handlers, the   *)
(* submit handler gradio_predict and the clear lambda.                     *)
(*                                                                         *)
(* Text is a sequence of one-character strings, so that str.split and the  *)
(* phrase cleaning are computed and not assumed.  A field holding Python's *)
(* None or a value is a sequence of length 0 or 1 (None == <<>>).          *)
(* Thresholds and scores are in hundredths (0.5 is 50).                    *)
(***************************************************************************)
EXTENDS Integers, Sequences, FiniteSets, TLC

VARIABLES
    pc,                 \* position of the __main__ script
    SAM2_AVAILABLE,     \* outcome of the guarded sam2 import
    args,               \* the parsed command line
    cfg,                \* the LazyConfig, None until setup(args)
    model,              \* the detection model, None until instantiate
    sam_predictor,      \* None or the SAM2ImagePredictor
    demo,               \* the OVDINODemo object, None until constructed
    image,              \* gr.Image "input image"
    input_text,         \* gr.Textbox
    score_thr,          \* gr.Slider "Score Threshold"
    with_segmentation,  \* gr.Checkbox: [value, visible]
    output_image,       \* gr.Image "output image"
    json_results,       \* gr.JSON "JSON Results"
    req,                \* the calls of gradio_predict, one per submit
    nSubmits,           \* submits so far
    nEdits,             \* UI edits so far
    cleared             \* history: the last event of the form was Clear

vars == <<pc, SAM2_AVAILABLE, args, cfg, model, sam_predictor, demo, image,
          input_text, score_thr, with_segmentation, output_image,
          json_results, req, nSubmits, nEdits, cleared>>

startup == <<SAM2_AVAILABLE, args, cfg, model, sam_predictor, demo>>
inputs  == <<image, input_text, score_thr, with_segmentation>>
outputs == <<output_image, json_results>>

-----------------------------------------------------------------------------
(* Bounds of the model. *)

\* submits in one run; the second may start while the first is in flight
MaxSubmits == 2
\* edits of the form (image, text, slider, checkbox, example, clear) in one run
MaxEdits == 2

None == <<>>
Some(x) == <<x>>

Requests == 1..MaxSubmits

-----------------------------------------------------------------------------
(* Text. *)

RECURSIVE Find(_, _, _)
\* str.find: the first index >= i where sep occurs in s, 0 when there is none
Find(s, sep, i) ==
    IF i + Len(sep) - 1 > Len(s) THEN 0
    ELSE IF SubSeq(s, i, i + Len(sep) - 1) = sep THEN i
    ELSE Find(s, sep, i + 1)

RECURSIVE Split(_, _)
\* str.split(sep): never empty, "" gives [""]
Split(s, sep) ==
    LET i == Find(s, sep, 1)
    IN  IF i = 0 THEN <<s>>
        ELSE <<SubSeq(s, 1, i - 1)>>
                 \o Split(SubSeq(s, i + Len(sep), Len(s)), sep)

RECURSIVE Join(_, _)
\* sep.join(parts)
Join(parts, sep) ==
    IF parts = <<>> THEN <<>>
    ELSE IF Len(parts) = 1 THEN parts[1]
    ELSE parts[1] \o sep \o Join(Tail(parts), sep)

RECURSIVE Strip(_)
\* leading and trailing blanks removed
Strip(s) ==
    IF s = <<>> THEN s
    ELSE IF Head(s) = " " THEN Strip(Tail(s))
    ELSE IF s[Len(s)] = " " THEN Strip(SubSeq(s, 1, Len(s) - 1))
    ELSE s

RECURSIVE Squeeze(_)
\* runs of blanks collapsed to one blank
Squeeze(s) ==
    IF Len(s) < 2 THEN s
    ELSE IF s[1] = " " /\ s[2] = " " THEN Squeeze(Tail(s))
    ELSE <<s[1]>> \o Squeeze(Tail(s))

\* detrex.data.datasets.clean_words_or_phrase
clean_words_or_phrase(name) == Strip(Squeeze(name))

CommaSpace == <<",", " ">>
Comma == <<",">>


-----------------------------------------------------------------------------
(* Program data. *)

\* MetadataCatalog.get(args.metadata_dataset).thing_classes, two classes
\* standing for the eighty of COCO
thing_classes == << <<"a">>, <<"b">> >>

\* coco_categories = ", ".join(thing_classes)
coco_categories == Join(thing_classes, CommaSpace)

\* the examples list: [image path, text]
examples == { [image |-> "img2", text |-> Join(<< <<"b">>, <<"a">> >>, CommaSpace)] }

\* what a user may upload; the example brings the other image
Images == {"img1"}

\* what a user may type in the textbox, next to the default text and the
\* text of the example: no blank after the comma, nothing after the last
\* comma, nothing at all
Texts == { <<"b", ",", "a">>,
           <<"a", ",", " ">>,
           <<>> }

\* positions of the slider (minimum 0, maximum 1, step 0.01) the model uses
SliderValues == {50, 70}

\* values of --confidence-threshold the model starts with
ConfidenceThresholds == {30, 50}

\* get_parser().parse_args()
ParsedArgs(sam, conf) ==
    [ config_file          |-> "projects/dino/configs/dino_r50_4scale_12ep.py",
      sam_config_file      |-> sam,
      sam_init_checkpoint  |-> None,
      min_size_test        |-> 800,
      max_size_test        |-> 1333,
      img_format           |-> "RGB",
      metadata_dataset     |-> "coco_2017_val",
      confidence_threshold |-> conf ]

\* a request before its submit
IdleRequest ==
    [ pc                |-> "idle",
      image             |-> None,
      text              |-> <<>>,
      score_thr         |-> 0,
      with_segmentation |-> FALSE,
      category_names    |-> <<>>,
      call              |-> None,
      predictions       |-> None,
      json_results      |-> <<>>,
      inflight          |-> {} ]

Init ==
    /\ pc = "setup"
    /\ SAM2_AVAILABLE \in BOOLEAN
    /\ \E sam \in {None, Some("sam2_config")} :
       \E conf \in ConfidenceThresholds :
           args = ParsedArgs(sam, conf)
    /\ cfg = None
    /\ model = None
    /\ sam_predictor = None
    /\ demo = None
    /\ image = None
    /\ input_text = <<>>
    /\ score_thr = 0
    /\ with_segmentation = [value |-> FALSE, visible |-> FALSE]
    /\ output_image = None
    /\ json_results = None
    /\ req = [r \in Requests |-> IdleRequest]
    /\ nSubmits = 0
    /\ nEdits = 0
    /\ cleared = FALSE

-----------------------------------------------------------------------------
(* The __main__ script up to app.launch. *)

\* a failed checkpoint load caught and passed over
CheckpointFailureIgnored(at) == IF at = "eval" THEN at ELSE "crashed"

\* an exception nobody catches ends the script
UncaughtException(at) == "crashed"

\* cfg = setup(args): LazyConfig.load and apply_overrides
Setup ==
    /\ pc = "setup"
    /\ \/ /\ cfg' = Some("cfg")
          /\ pc' = "instantiate"
       \/ /\ cfg' = cfg
          /\ pc' = UncaughtException("instantiate")
    /\ UNCHANGED <<SAM2_AVAILABLE, args, model, sam_predictor, demo,
                   inputs, outputs, req, nSubmits, nEdits, cleared>>

\* model = instantiate(cfg.model); model.to(cfg.train.device)
Instantiate ==
    /\ pc = "instantiate"
    /\ \/ /\ model' = Some([weights |-> "initial", training |-> TRUE])
          /\ pc' = "load"
       \/ /\ model' = model
          /\ pc' = UncaughtException("load")
    /\ UNCHANGED <<SAM2_AVAILABLE, args, cfg, sam_predictor, demo,
                   inputs, outputs, req, nSubmits, nEdits, cleared>>

\* DetectionCheckpointer(model).load(cfg.train.init_checkpoint)
LoadCheckpoint ==
    /\ pc = "load"
    /\ \/ /\ model' = Some([model[1] EXCEPT !.weights = "checkpoint"])
          /\ pc' = "eval"
       \/ /\ model' = model
          /\ pc' = UncaughtException("eval")
    /\ UNCHANGED <<SAM2_AVAILABLE, args, cfg, sam_predictor, demo,
                   inputs, outputs, req, nSubmits, nEdits, cleared>>

\* model.eval()
Eval ==
    /\ pc = "eval"
    /\ model' = Some([model[1] EXCEPT !.training = FALSE])
    /\ pc' = "sam"
    /\ UNCHANGED <<SAM2_AVAILABLE, args, cfg, sam_predictor, demo,
                   inputs, outputs, req, nSubmits, nEdits, cleared>>

\* if args.sam_config_file is not None and SAM2_AVAILABLE: ... else: None
BuildSam ==
    /\ pc = "sam"
    /\ IF args.sam_config_file # None /\ SAM2_AVAILABLE
       THEN \/ /\ sam_predictor' = Some("SAM2ImagePredictor")
               /\ pc' = "demo"
            \/ /\ sam_predictor' = sam_predictor
               /\ pc' = UncaughtException("demo")
       ELSE /\ sam_predictor' = None
            /\ pc' = "demo"
    /\ UNCHANGED <<SAM2_AVAILABLE, args, cfg, model, demo,
                   inputs, outputs, req, nSubmits, nEdits, cleared>>

\* demo = OVDINODemo(model=model, sam_predictor=sam_predictor, ...)
BuildDemo ==
    /\ pc = "demo"
    /\ demo' = Some([ model            |-> model[1],
                      sam_predictor    |-> sam_predictor,
                      min_size_test    |-> args.min_size_test,
                      max_size_test    |-> args.max_size_test,
                      img_format       |-> args.img_format,
                      metadata_dataset |-> args.metadata_dataset ])
    /\ pc' = "blocks"
    /\ UNCHANGED <<SAM2_AVAILABLE, args, cfg, model, sam_predictor,
                   inputs, outputs, req, nSubmits, nEdits, cleared>>

\* the slider's value=0.5
SliderDefault == 50

\* visible=SAM2_AVAILABLE
CheckboxVisible == SAM2_AVAILABLE

\* with gr.Blocks(...) as app: the components, then app.launch
Launch ==
    /\ pc = "blocks"
    /\ image' = None
    /\ input_text' = coco_categories
    /\ score_thr' = SliderDefault
    /\ with_segmentation' = [value |-> FALSE, visible |-> CheckboxVisible]
    /\ output_image' = None
    /\ json_results' = None
    /\ pc' = "serving"
    /\ UNCHANGED <<startup, req, nSubmits, nEdits, cleared>>

-----------------------------------------------------------------------------
(* The user at the form. *)

Editing ==
    /\ pc = "serving"
    /\ nEdits < MaxEdits
    /\ nEdits' = nEdits + 1

\* the user uploads an image
SetImage ==
    /\ Editing
    /\ cleared' = FALSE
    /\ \E i \in Images : image' = Some(i)
    /\ UNCHANGED <<pc, startup, input_text, score_thr, with_segmentation,
                   outputs, req, nSubmits>>

\* the user types the classes
SetText ==
    /\ Editing
    /\ cleared' = FALSE
    /\ \E t \in Texts : input_text' = t
    /\ UNCHANGED <<pc, startup, image, score_thr, with_segmentation,
                   outputs, req, nSubmits>>

\* the user moves the slider
SetScoreThr ==
    /\ Editing
    /\ cleared' = FALSE
    /\ \E v \in SliderValues : score_thr' = v
    /\ UNCHANGED <<pc, startup, image, input_text, with_segmentation,
                   outputs, req, nSubmits>>

\* the user ticks or unticks the checkbox, which takes a visible checkbox
ToggleSegmentation ==
    /\ Editing
    /\ cleared' = FALSE
    /\ with_segmentation.visible
    /\ with_segmentation' =
           [with_segmentation EXCEPT !.value = ~with_segmentation.value]
    /\ UNCHANGED <<pc, startup, image, input_text, score_thr,
                   outputs, req, nSubmits>>

\* gr.Examples(examples=examples, inputs=[image, input_text])
LoadExample ==
    /\ Editing
    /\ cleared' = FALSE
    /\ \E e \in examples :
           /\ image' = Some(e.image)
           /\ input_text' = e.text
    /\ UNCHANGED <<pc, startup, score_thr, with_segmentation,
                   outputs, req, nSubmits>>

\* What gradio makes of a returned component: an update of the properties
\* the component was constructed with.  json_results and with_segmentation
\* were constructed without a value, so their values stay.
ReturnedComponent(current) == current

\* the literal 0.5 of the clear lambda
ClearThreshold == 50

\* clear.click(lambda: [None, coco_categories, 0.5, json_results,
\*                      with_segmentation], ...)
Clear ==
    /\ Editing
    /\ cleared' = TRUE
    /\ image' = None
    /\ input_text' = coco_categories
    /\ score_thr' = ClearThreshold
    /\ json_results' = ReturnedComponent(json_results)
    /\ with_segmentation' = ReturnedComponent(with_segmentation)
    /\ UNCHANGED <<pc, startup, output_image, req, nSubmits>>

-----------------------------------------------------------------------------
(* gradio_predict, one call per submit. *)

RECURSIVE Cleaned(_)
\* [clean_words_or_phrase(cat_name) for cat_name in category_names]
Cleaned(names) ==
    IF names = <<>> THEN <<>>
    ELSE <<clean_words_or_phrase(Head(names))>> \o Cleaned(Tail(names))

\* category_names = text.split(", "), then cleaned
CategoryNames(text) == Cleaned(Split(text, CommaSpace))

\* the requests running when a submit arrives
InFlight == {q \in Requests : req[q].pc \in {"called", "detected"}}

\* submit.click(fn=gradio_predict, inputs=[image, input_text, score_thr,
\* with_segmentation], ...): the call starts with the values of the form.
\* The script sets up neither a queue nor a lock, so a submit may arrive
\* while the calls of earlier submits are running.
Submit ==
    /\ pc = "serving"
    /\ nSubmits < MaxSubmits
    /\ nSubmits' = nSubmits + 1
    /\ req' = [req EXCEPT ![nSubmits + 1] =
                  [ pc                |-> "called",
                    image             |-> image,
                    text              |-> input_text,
                    score_thr         |-> score_thr,
                    with_segmentation |-> with_segmentation.value,
                    category_names    |-> CategoryNames(input_text),
                    call              |-> None,
                    predictions       |-> None,
                    json_results      |-> <<>>,
                    inflight          |-> InFlight ]]
    /\ cleared' = FALSE
    /\ UNCHANGED <<pc, startup, inputs, outputs, nEdits>>

\* one category list for the process, overwritten by each submit
SharedCategoryNames(r) == req[nSubmits].category_names

\* the category list request r works with: its own local
CategoryNamesOf(r) == req[r].category_names

\* the threshold of the command line passed on instead
StartupThreshold(r) == args.confidence_threshold

\* the threshold gradio_predict passes on: its score_thr parameter
ScoreThrOf(r) == req[r].score_thr

\* the arguments of demo.run_on_image(image, category_names, score_thr,
\* with_segmentation)
CallOf(r) ==
    [ image             |-> req[r].image,
      category_names    |-> CategoryNamesOf(r),
      score_thr         |-> ScoreThrOf(r),
      with_segmentation |-> req[r].with_segmentation ]

\* What is to be seen in each image: the objects, each with the phrase that
\* names it and the score the model gives it under that phrase.
Scene(img) ==
    IF img = "img1"
    THEN << [name |-> <<"a">>, score |-> 80], [name |-> <<"b">>, score |-> 60] >>
    ELSE << [name |-> <<"b">>, score |-> 80], [name |-> <<"b">>, score |-> 60],
            [name |-> <<"a">>, score |-> 40] >>

\* the index (from 0) of the first entry of names that is name
RECURSIVE IndexOf(_, _)
IndexOf(names, name) ==
    IF names = <<>> \/ Head(names) = name THEN 0
    ELSE 1 + IndexOf(Tail(names), name)

\* The detection model in eval mode, a function of the image and the
\* category list of the call: an instance for each object of the image that
\* one of the categories names, its class the index of that category, pruned
\* by the threshold of the call.
RECURSIVE Detect(_, _, _)
Detect(objects, names, thr) ==
    IF objects = <<>> THEN <<>>
    ELSE LET o == Head(objects)
             k == IndexOf(names, o.name)
         IN  (IF k < Len(names) /\ o.score >= thr
              THEN << [pred_class |-> k, score |-> o.score, bbox |-> "box"] >>
              ELSE <<>>)
             \o Detect(Tail(objects), names, thr)

\* what OVDINODemo.run_on_image(image, category_names, score_thr,
\* with_segmentation) returns: the instances of its image, with masks when
\* SAM2 refined them
Predictions(c, masks) ==
    [ image     |-> c.image[1],
      has_masks |-> masks,
      instances |-> Detect(Scene(c.image[1]), c.category_names, c.score_thr) ]

\* whether the call gets masks: segmentation asked for, and a predictor
Refined(c) == c.with_segmentation /\ demo[1].sam_predictor # None

\* segmentation asked for and no predictor: run_on_image is not under src/;
\* it either dereferences the missing predictor and raises or goes on
\* without masks
Unrefinable(c) == c.with_segmentation /\ demo[1].sam_predictor = None

\* predictions, visualized_output = demo.run_on_image(...), which returns
RunOnImage(r) ==
    /\ pc = "serving"
    /\ req[r].pc = "called"
    /\ LET c == CallOf(r)
       IN  /\ c.image # None
           /\ req' = [req EXCEPT ![r].pc = "detected",
                                 ![r].call = Some(c),
                                 ![r].predictions = Some(Predictions(c, Refined(c)))]
    /\ UNCHANGED <<pc, startup, inputs, outputs, nSubmits, nEdits, cleared>>

\* ... or raises: no image was uploaded (np.array(None)), or segmentation
\* was asked for and there is no SAM2 predictor.  gradio reports the error
\* (show_error=True) and leaves the outputs as they were.
RunOnImageRaises(r) ==
    /\ pc = "serving"
    /\ req[r].pc = "called"
    /\ LET c == CallOf(r)
       IN  /\ c.image = None \/ Unrefinable(c)
           /\ req' = [req EXCEPT ![r].pc = "error",
                                 ![r].call = Some(c)]
    /\ UNCHANGED <<pc, startup, inputs, outputs, nSubmits, nEdits, cleared>>

\* detectron2's instances_to_coco_json(instances, img_id): one record per
\* instance, in order
instances_to_coco_json(p, img_id) ==
    [ k \in 1..Len(p.instances) |->
        LET i == p.instances[k]
        IN  IF p.has_masks
            THEN [ image_id     |-> img_id,
                   category_id  |-> i.pred_class,
                   bbox         |-> i.bbox,
                   score        |-> i.score,
                   segmentation |-> "rle" ]
            ELSE [ image_id     |-> img_id,
                   category_id  |-> i.pred_class,
                   bbox         |-> i.bbox,
                   score        |-> i.score ] ]

\* the list indexed by the record's image_id instead
ImageIdAsIndex(json_result) == json_result.image_id

\* the index of category_names[json_result["category_id"]]
NameIndex(json_result) == json_result.category_id

\* json_result["category_name"] = category_names[...]
SetCategoryName(json_result, names) ==
    [ key \in DOMAIN json_result \cup {"category_name"} |->
        IF key = "category_name" THEN names[NameIndex(json_result) + 1]
        ELSE json_result[key] ]

\* the record left as instances_to_coco_json made it
ImageIdKept(json_result) == json_result

\* del json_result["image_id"]
DelImageId(json_result) ==
    [ key \in DOMAIN json_result \ {"image_id"} |-> json_result[key] ]

\* the body of "for json_result in json_results"
LoopBody(json_result, names) ==
    DelImageId(SetCategoryName(json_result, names))

\* lines 141 to 148: the records, and what the call returns to gradio, which
\* sets output_image and json_results; an index out of the list's range is
\* an IndexError, which gradio reports
Return(r) ==
    /\ pc = "serving"
    /\ req[r].pc = "detected"
    /\ LET p     == req[r].predictions[1]
           names == CategoryNamesOf(r)
           raw   == instances_to_coco_json(p, 0)
       IN  IF \A k \in 1..Len(raw) : NameIndex(raw[k]) < Len(names)
           THEN LET done == [k \in 1..Len(raw) |-> LoopBody(raw[k], names)]
                IN  /\ req' = [req EXCEPT ![r].pc = "returned",
                                          ![r].json_results = done]
                    /\ output_image' = Some([image |-> p.image,
                                             drawn |-> p.instances])
                    /\ json_results' = Some(done)
           ELSE /\ req' = [req EXCEPT ![r].pc = "error"]
                /\ UNCHANGED outputs
    /\ UNCHANGED <<pc, startup, inputs, nSubmits, nEdits, cleared>>

-----------------------------------------------------------------------------

Next ==
    \/ Setup
    \/ Instantiate
    \/ LoadCheckpoint
    \/ Eval
    \/ BuildSam
    \/ BuildDemo
    \/ Launch
    \/ SetImage
    \/ SetText
    \/ SetScoreThr
    \/ ToggleSegmentation
    \/ LoadExample
    \/ Clear
    \/ Submit
    \/ \E r \in Requests : RunOnImage(r)
    \/ \E r \in Requests : RunOnImageRaises(r)
    \/ \E r \in Requests : Return(r)

Spec == Init /\ [][Next]_vars

-----------------------------------------------------------------------------
(* Properties. *)

Called(r)   == req[r].call # None
Returned(r) == req[r].pc = "returned"

\* the phrases between the commas of text, cleaned
Segments(text) == Cleaned(Split(text, Comma))

NonEmpty(phrase) == phrase # <<>>

\* C1: the category list passed to the detector with an uploaded image is
\* the list of the non-empty cleaned comma-delimited segments of the text:
\* as many entries, in the order of the text.
C1_ListIsNonEmptySegments ==
    \A r \in Requests :
        Called(r) /\ req[r].image # None =>
            req[r].call[1].category_names =
                SelectSeq(Segments(req[r].text), NonEmpty)

\* C2: a returned request has one record per prediction of its call, in
\* order, every prediction passes the request's threshold, every class index
\* lies in the category list, each record's category_name is the entry at
\* that index, and no request fails on the lookup.
C2_RecordPerPrediction ==
    \A r \in Requests :
        /\ Returned(r) =>
              LET p     == req[r].predictions[1].instances
                  js    == req[r].json_results
                  names == req[r].category_names
              IN  /\ Len(js) = Len(p)
                  /\ \A k \in 1..Len(p) :
                        /\ p[k].score >= req[r].score_thr
                        /\ p[k].pred_class < Len(names)
                        /\ js[k].category_id = p[k].pred_class
                        /\ js[k].score = p[k].score
                        /\ js[k].category_name = names[p[k].pred_class + 1]
        /\ req[r].pc = "error" =>
              \/ req[r].image = None
              \/ req[r].with_segmentation /\ sam_predictor = None

\* two records with different class indices, resolved to different names
C2_Witness ==
    \E r \in Requests :
        /\ Returned(r)
        /\ Len(req[r].json_results) = 2
        /\ req[r].json_results[1].category_id = 1
        /\ req[r].json_results[2].category_id = 0
        /\ req[r].json_results[1].category_name = <<"a">>
        /\ req[r].json_results[2].category_name = <<"b">>

\* C3: with no SAM2 predictor, no call of demo.run_on_image on an uploaded
\* image has with_segmentation = true.
C3_NoSegmentationWithoutPredictor ==
    \A r \in Requests :
        Called(r) /\ req[r].image # None /\ sam_predictor = None =>
            ~req[r].call[1].with_segmentation

\* C4: clear sets the threshold field to the --confidence-threshold of the
\* command line.
C4_ClearResetsToStartupThreshold ==
    [][Clear => score_thr' = args.confidence_threshold]_vars

\* C5: clear leaves the image empty, the text the default vocabulary, the
\* results cleared and the checkbox unchecked, and calls no model.
C5_ClearResetsAllFields ==
    [][Clear => /\ image' = None
                /\ input_text' = coco_categories
                /\ json_results' = None
                /\ ~with_segmentation'.value
                /\ req' = req]_vars

\* C6: a submit of an uploaded image whose text has a phrase that is empty
\* after cleaning never reaches the detector and returns nothing.
C6_EmptyPhraseRejected ==
    \A r \in Requests :
        (\E k \in DOMAIN Segments(req[r].text) :
             ~NonEmpty(Segments(req[r].text)[k]))
        /\ req[r].pc # "idle"
        /\ req[r].image # None
        => /\ ~Called(r)
           /\ req[r].pc \in {"called", "error"}

ModelLoaded ==
    /\ cfg # None
    /\ model # None
    /\ model[1].weights = "checkpoint"
    /\ ~model[1].training

\* C7: a script whose model load failed serves nothing, and every submit
\* finds the model loaded from the checkpoint and in eval mode.
C7_SubmitOnlyAfterLoad ==
    /\ pc = "crashed" => nSubmits = 0 /\ demo = None
    /\ nSubmits > 0 => pc = "serving" /\ ModelLoaded
    /\ pc = "serving" => ModelLoaded

\* a submit was accepted and its call returned records
C7_Witness ==
    \E r \in Requests : Returned(r) /\ Len(req[r].json_results) > 0

\* C8: no record of a returned request, and none shown in the results field,
\* has an image_id.
C8_NoImageId ==
    /\ \A r \in Requests :
           Returned(r) =>
               \A k \in 1..Len(req[r].json_results) :
                   "image_id" \notin DOMAIN req[r].json_results[k]
    /\ json_results # None =>
           \A k \in 1..Len(json_results[1]) :
               "image_id" \notin DOMAIN json_results[1][k]

\* a request returned with no record and one returned with two or more
C8_Witness ==
    \E r, q \in Requests :
        /\ Returned(r) /\ Len(req[r].predictions[1].instances) = 0
        /\ Returned(q) /\ Len(req[q].json_results) >= 2

\* the instances of image img under the category list of text and thr
OwnInstances(img, text, thr) == Detect(Scene(img), CategoryNames(text), thr)

=============================================================================
